---------------------------- MODULE Spec2Model ----------------------------
(***************************************************************************)
(* Model of the Enterprise Monitoring agent's local transport              *)
(* (src/src/ipc_manager.py): the IPCClient with its lock and bounded       *)
(* outbound queue, the IPCServer's per-connection frame loop, and the      *)
(* IPCMessage JSON codec.                                                  *)
(***************************************************************************)
EXTENDS Integers, Sequences, FiniteSets, TLC

(***************************************************************************)
(* Bounds of the model.                                                    *)
(***************************************************************************)
\* capacity of IPCClient.message_queue (Config.MAX_QUEUE_SIZE, scaled down)
MAX_QUEUE_SIZE == 2
\* number of send_message calls in one behaviour
MaxMsgs == MAX_QUEUE_SIZE + 1
\* number of threads that call into one IPCClient
NumThreads == 2

Threads == 1..NumThreads
NoOwner == 0
NoMsg == 0

VARIABLES
    \* ---- IPCClient fields ----
    connected,      \* self.connected
    socket,         \* self.socket: "None" or "sock" (a socket object)
    open_sockets,   \* client socket objects that exist and are not closed
    lock,           \* self.lock: NoOwner, or the thread holding it
    message_queue,  \* self.message_queue: FIFO of message ids
    \* ---- the other end of the client's socket ----
    delivered,      \* frames accepted by sendall, in order
    \* ---- per-thread control state ----
    pc,             \* position of each thread inside the client's methods
    message,        \* the local `message` of the running method
    caller,         \* who called _send_message_direct: "send_message" | "flush"
    count,          \* local `count` of _flush_queue
    ret,            \* value returned by the thread's last call
    outcome,        \* what happened to the message of the last send_message
    nextId,         \* next fresh message id
    flushSnap,      \* queue contents when the thread's connect() began to flush
    flushBase,      \* Len(delivered) at that moment
    \* ---- UserAgent.start ----
    attempt         \* `attempt` of the connection loop of UserAgent.start

clientVars == <<connected, socket, open_sockets, lock, message_queue, delivered, pc, message,
                caller, count, ret, outcome, nextId, flushSnap, flushBase,
                attempt>>

VARIABLES
    \* ---- IPCServer fields ----
    running,            \* self.running
    server_socket,      \* self.server_socket: "None" | "created" | "listening" | "closed"
    connected_clients,  \* self.connected_clients: the list of client sockets
    \* ---- threads of the server ----
    loop_pc,            \* each _server_loop thread: "unborn" | "init" | "check" |
                        \* "accept" | "ended"
    sock,               \* each connection's server-side socket: "none" | "open" | "closed"
    hpc,                \* each connection's _handle_client thread: "none" | "start" |
                        \* "check" | "recv" | "finally" | "done"
    stop_pc,            \* the thread inside stop(): "idle" | "server" | "clients"
    stop_i,             \* index of the list iterator of stop()'s for loop
    \* ---- observation of the server ----
    incoming,           \* frames the peers send in this behaviour
    handled,            \* handler invocations so far: msg_type, data, and whether
                        \* the handler raised
    nFrames,            \* frames read so far
    written,            \* frames the server has written to each connection
    stopSnap,           \* the connections in the active set when stop() was called
    stopped             \* stop() has returned and start() was not called since

serverVars == <<running, server_socket, connected_clients, loop_pc, sock, hpc,
                stop_pc, stop_i, incoming, handled, nFrames, written, stopSnap,
                stopped>>

VARIABLES
    \* ---- one IPCMessage taken through to_json / from_json ----
    env,        \* the IPCMessage e
    wire,       \* e.to_json()
    decoded,    \* IPCMessage.from_json(wire)
    cphase      \* "new" | "encoded" | "decoded"

codecVars == <<env, wire, decoded, cphase>>

VARIABLES
    \* ---- ServiceWatchdog: configuration and the database tables ----
    ENABLE_SERVER_SYNC, \* Config.ENABLE_SERVER_SYNC, as loaded when the service starts
    table,              \* per record class, the rows in id order: timestamp, synced,
                        \* and whether the row has been deleted
    db_lock,            \* DatabaseManager.lock: "none", or the operation holding it
    \* ---- threads that run sync_data_to_server ----
    ppc,                \* position of each thread: "idle" | "select" | "send" | "end"
    pcls,               \* which record class the thread is at (index in ClassOrder)
    batch,              \* the ids the thread's SELECT returned, in result order
    sync_stats,         \* the thread's sync_stats dictionary
    \* ---- observation of the sync engine ----
    confirmed           \* record ids of batches the remote endpoint accepted

syncVars == <<ENABLE_SERVER_SYNC, table, db_lock, ppc, pcls, batch, sync_stats,
              confirmed>>

Range(s) == {s[i] : i \in 1..Len(s)}

\* s occurs in d as a block of consecutive elements
IsInfix(s, d) ==
    \E i \in 0..(Len(d) - Len(s)) : \A j \in 1..Len(s) : d[i + j] = s[j]

(***************************************************************************)
(* queue.Queue(maxsize=Config.MAX_QUEUE_SIZE)                              *)
(***************************************************************************)
\* put_nowait with the capacity test left out
put_nowait_unbounded(q, m) == [full |-> FALSE, q |-> Append(q, m)]

\* Queue.put_nowait: raises Full (full = TRUE) at capacity, else appends
put_nowait(q, m) ==
    IF Len(q) >= MAX_QUEUE_SIZE
    THEN [full |-> TRUE, q |-> q]
    ELSE [full |-> FALSE, q |-> Append(q, m)]

(***************************************************************************)
(* IPCClient.__init__                                                      *)
(***************************************************************************)
ClientInit ==
    /\ connected = FALSE
    /\ socket = "None"
    /\ open_sockets = 0
    /\ lock = NoOwner
    /\ message_queue = <<>>
    /\ delivered = <<>>
    /\ pc = [t \in Threads |-> "idle"]
    /\ message = [t \in Threads |-> NoMsg]
    /\ caller = [t \in Threads |-> "none"]
    /\ count = [t \in Threads |-> 0]
    /\ ret = [t \in Threads |-> "None"]
    /\ outcome = [t \in Threads |-> "none"]
    /\ nextId = 1
    /\ flushSnap = [t \in Threads |-> <<>>]
    /\ flushBase = [t \in Threads |-> 0]
    /\ attempt = 1

\* a method returns value r to its caller
Return(t, r) ==
    /\ pc' = [pc EXCEPT ![t] = "idle"]
    /\ ret' = [ret EXCEPT ![t] = r]
    /\ message' = [message EXCEPT ![t] = NoMsg]
    /\ caller' = [caller EXCEPT ![t] = "none"]

(***************************************************************************)
(* IPCClient.send_message                                                  *)
(***************************************************************************)
\* lines 315-318, 328: build the message, test self.connected without the lock
send_message(t) ==
    /\ UNCHANGED <<serverVars, codecVars, syncVars, open_sockets, attempt>>
    /\ pc[t] = "idle"
    /\ nextId <= MaxMsgs
    /\ nextId' = nextId + 1
    /\ message' = [message EXCEPT ![t] = nextId]
    /\ outcome' = [outcome EXCEPT ![t] = "none"]
    /\ ret' = [ret EXCEPT ![t] = "None"]
    /\ flushSnap' = [flushSnap EXCEPT ![t] = <<>>]
    /\ flushBase' = [flushBase EXCEPT ![t] = 0]
    /\ IF ~connected
       THEN /\ pc' = [pc EXCEPT ![t] = "sm_put"]
            /\ caller' = caller
       ELSE /\ pc' = [pc EXCEPT ![t] = "smd_acquire"]
            /\ caller' = [caller EXCEPT ![t] = "send_message"]
    /\ UNCHANGED <<connected, socket, lock, message_queue, delivered, count>>

\* lines 319-325: put_nowait; both the enqueued and the Full path return False
send_message_put(t) ==
    /\ UNCHANGED <<serverVars, codecVars, syncVars, open_sockets, attempt>>
    /\ pc[t] = "sm_put"
    /\ LET r == put_nowait(message_queue, message[t]) IN
         /\ message_queue' = r.q
         /\ outcome' = [outcome EXCEPT ![t] = IF r.full THEN "dropped" ELSE "enqueued"]
    /\ Return(t, "False")
    /\ UNCHANGED <<connected, socket, lock, delivered, count, nextId,
                   flushSnap, flushBase>>

(***************************************************************************)
(* IPCClient._send_message_direct                                          *)
(***************************************************************************)
\* line 332: `with self.lock` -- threading.Lock is not reentrant, so the
\* thread waits here as long as anyone (itself included) holds the lock
send_message_direct_acquire(t) ==
    /\ UNCHANGED <<serverVars, codecVars, syncVars, open_sockets, attempt>>
    /\ pc[t] = "smd_acquire"
    /\ lock = NoOwner
    /\ lock' = t
    /\ pc' = [pc EXCEPT ![t] = "smd_body"]
    /\ UNCHANGED <<connected, socket, message_queue, delivered, message, caller,
                   count, ret, outcome, nextId, flushSnap, flushBase>>

\* The rest of _flush_queue's loop body (lines 359-366) once
\* _send_message_direct has returned `sent` to it, and connect's return.
flush_after_send(t, sent) ==
    IF sent
    THEN \* count += 1, back to the loop test
         /\ count' = [count EXCEPT ![t] = count[t] + 1]
         /\ pc' = [pc EXCEPT ![t] = "fl_loop"]
         /\ message' = [message EXCEPT ![t] = NoMsg]
         /\ caller' = [caller EXCEPT ![t] = "none"]
         /\ UNCHANGED <<message_queue, ret>>
    ELSE \* put the message back with put_nowait (at the tail), break,
         \* and connect returns True (line 284)
         /\ message_queue' = put_nowait(message_queue, message[t]).q
         /\ count' = count
         /\ Return(t, "True")

\* lines 333-351, executed holding the lock; `ok` is whether sendall succeeds
send_message_direct_body(t, ok) ==
    /\ UNCHANGED <<serverVars, codecVars, syncVars, open_sockets, attempt>>
    /\ pc[t] = "smd_body"
    /\ lock' = NoOwner
    /\ LET live == connected /\ socket # "None"
           sent == live /\ ok
       IN /\ delivered' = IF sent THEN Append(delivered, message[t]) ELSE delivered
          /\ connected' = IF live /\ ~ok THEN FALSE ELSE connected
          /\ IF caller[t] = "flush"
             THEN /\ flush_after_send(t, sent)
                  /\ outcome' = outcome
             ELSE /\ outcome' = [outcome EXCEPT ![t] =
                                   IF sent THEN "sent"
                                   ELSE IF live THEN "failed" ELSE "notconnected"]
                  /\ Return(t, IF sent THEN "True" ELSE "False")
                  /\ UNCHANGED <<message_queue, count>>
    /\ UNCHANGED <<socket, nextId, flushSnap, flushBase>>

(***************************************************************************)
(* IPCClient.connect and IPCClient._flush_queue                            *)
(***************************************************************************)
connect(t) ==
    /\ UNCHANGED <<serverVars, codecVars, syncVars, open_sockets, attempt>>
    /\ pc[t] = "idle"
    /\ pc' = [pc EXCEPT ![t] = "cn_acquire"]
    /\ ret' = [ret EXCEPT ![t] = "None"]
    /\ outcome' = [outcome EXCEPT ![t] = "none"]
    /\ flushSnap' = [flushSnap EXCEPT ![t] = <<>>]
    /\ flushBase' = [flushBase EXCEPT ![t] = 0]
    /\ UNCHANGED <<connected, socket, lock, message_queue, delivered, message,
                   caller, count, nextId>>

\* line 269: `with self.lock`
connect_acquire(t) ==
    /\ UNCHANGED <<serverVars, codecVars, syncVars, open_sockets, attempt>>
    /\ pc[t] = "cn_acquire"
    /\ lock = NoOwner
    /\ lock' = t
    /\ pc' = [pc EXCEPT ![t] = "cn_body"]
    /\ UNCHANGED <<connected, socket, message_queue, delivered, message, caller,
                   count, ret, outcome, nextId, flushSnap, flushBase>>

\* an assignment to self.socket that leaves the object it referred to open
rebind_leaking(n, old) == n

\* self.socket = ... (line 274): the socket object self.socket referred to
\* loses its only reference and is closed when it is deallocated
rebind(n, old) == IF old = "None" THEN n ELSE n - 1

\* a disconnect that also empties the queue
disconnect_discard(q) == <<>>

\* disconnect (lines 291-302) does not touch self.message_queue
disconnect_queue(q) == q

\* lines 270-289; `ok` is whether socket.connect succeeds
connect_body(t, ok) ==
    /\ UNCHANGED <<serverVars, codecVars, syncVars, attempt>>
    /\ pc[t] = "cn_body"
    /\ IF connected
       THEN \* already connected: return True, leaving the `with` block
            /\ lock' = NoOwner
            /\ Return(t, "True")
            /\ UNCHANGED <<connected, socket, open_sockets, count, flushSnap,
                           flushBase>>
       ELSE \* line 274: a new socket object is bound to self.socket
            /\ socket' = "sock"
            /\ open_sockets' = rebind(open_sockets, socket) + 1
            /\ IF ok
               THEN \* connected = True, then _flush_queue() inside the lock
                    /\ connected' = TRUE
                    /\ lock' = lock
                    /\ pc' = [pc EXCEPT ![t] = "fl_loop"]
                    /\ count' = [count EXCEPT ![t] = 0]
                    /\ flushSnap' = [flushSnap EXCEPT ![t] = message_queue]
                    /\ flushBase' = [flushBase EXCEPT ![t] = Len(delivered)]
                    /\ UNCHANGED <<ret, message, caller>>
               ELSE /\ connected' = FALSE
                    /\ lock' = NoOwner
                    /\ Return(t, "False")
                    /\ UNCHANGED <<count, flushSnap, flushBase>>
    /\ UNCHANGED <<message_queue, delivered, outcome, nextId>>

\* lines 356-359: loop test, get_nowait, call _send_message_direct;
\* on an empty queue the loop ends and connect returns True (line 284)
flush_queue(t) ==
    /\ UNCHANGED <<serverVars, codecVars, syncVars, open_sockets, attempt>>
    /\ pc[t] = "fl_loop"
    /\ IF message_queue # <<>>
       THEN /\ message' = [message EXCEPT ![t] = Head(message_queue)]
            /\ message_queue' = Tail(message_queue)
            /\ caller' = [caller EXCEPT ![t] = "flush"]
            /\ pc' = [pc EXCEPT ![t] = "smd_acquire"]
            /\ UNCHANGED <<lock, ret>>
       ELSE /\ lock' = NoOwner
            /\ Return(t, "True")
            /\ UNCHANGED message_queue
    /\ UNCHANGED <<connected, socket, delivered, count, outcome, nextId,
                   flushSnap, flushBase>>

(***************************************************************************)
(* IPCClient.disconnect                                                    *)
(***************************************************************************)
disconnect(t) ==
    /\ UNCHANGED <<serverVars, codecVars, syncVars, open_sockets, attempt>>
    /\ pc[t] = "idle"
    /\ pc' = [pc EXCEPT ![t] = "dc_acquire"]
    /\ ret' = [ret EXCEPT ![t] = "None"]
    /\ outcome' = [outcome EXCEPT ![t] = "none"]
    /\ flushSnap' = [flushSnap EXCEPT ![t] = <<>>]
    /\ flushBase' = [flushBase EXCEPT ![t] = 0]
    /\ UNCHANGED <<connected, socket, lock, message_queue, delivered, message,
                   caller, count, nextId>>

\* lines 293-302 (acquire, close the socket, connected = False, release)
disconnect_body(t) ==
    /\ UNCHANGED <<serverVars, codecVars, syncVars, attempt>>
    /\ pc[t] = "dc_acquire"
    /\ lock = NoOwner
    /\ socket' = "None"
    /\ open_sockets' = IF socket # "None" THEN open_sockets - 1 ELSE open_sockets
    /\ connected' = FALSE
    /\ message_queue' = disconnect_queue(message_queue)
    /\ Return(t, "None")
    /\ UNCHANGED <<lock, delivered, count, outcome, nextId, flushSnap, flushBase>>

\* a step inside a method that thread t has already entered
Step(t) ==
    \/ send_message_put(t)
    \/ send_message_direct_acquire(t)
    \/ \E ok \in BOOLEAN : send_message_direct_body(t, ok)
    \/ connect_acquire(t)
    \/ \E ok \in BOOLEAN : connect_body(t, ok)
    \/ flush_queue(t)
    \/ disconnect_body(t)

ClientNext ==
    \/ \E t \in Threads : send_message(t)
    \/ \E t \in Threads : send_message_put(t)
    \/ \E t \in Threads : send_message_direct_acquire(t)
    \/ \E t \in Threads, ok \in BOOLEAN : send_message_direct_body(t, ok)
    \/ \E t \in Threads : connect(t)
    \/ \E t \in Threads : connect_acquire(t)
    \/ \E t \in Threads, ok \in BOOLEAN : connect_body(t, ok)
    \/ \E t \in Threads : flush_queue(t)
    \/ \E t \in Threads : disconnect(t)
    \/ \E t \in Threads : disconnect_body(t)

(***************************************************************************)
(* UserAgent: the main thread (thread 1) and the monitors (thread 2)       *)
(***************************************************************************)
\* max_retries of UserAgent.start (10 in user_agent.py), scaled down
max_retries == 2
\* the thread that runs UserAgent.start and, from the tray menu, quit
MainThread == 1
\* the thread the monitors send from
MonitorThread == 2

\* UserAgent.start, lines 510-511: one iteration of the connection loop
\* calls self.ipc_client.connect()
start_connect ==
    /\ pc[MainThread] = "idle"
    /\ ret[MainThread] = "None"
    /\ attempt <= max_retries
    /\ connect(MainThread)

\* UserAgent.start, lines 514-516: the attempt failed; sleep, next iteration
start_retry ==
    /\ UNCHANGED <<serverVars, codecVars, syncVars>>
    /\ pc[MainThread] = "idle"
    /\ ret[MainThread] = "False"
    /\ attempt < max_retries
    /\ attempt' = attempt + 1
    /\ ret' = [ret EXCEPT ![MainThread] = "None"]
    /\ UNCHANGED <<connected, socket, open_sockets, lock, message_queue, delivered,
                   pc, message, caller, count, outcome, nextId, flushSnap, flushBase>>

\* UserAgent.start, lines 512-532: the loop is left by `break` after a
\* successful connect or, through its else branch, after max_retries failed
\* attempts; the monitors are started and the main thread runs the tray icon.
\* No thread is started on IPCClient.auto_reconnect_loop
start_monitors ==
    /\ UNCHANGED <<serverVars, codecVars, syncVars>>
    /\ pc[MainThread] = "idle"
    /\ \/ ret[MainThread] = "True"
       \/ ret[MainThread] = "False" /\ attempt = max_retries
    /\ pc' = [pc EXCEPT ![MainThread] = "tray"]
    /\ UNCHANGED <<connected, socket, open_sockets, lock, message_queue, delivered,
                   message, caller, count, ret, outcome, nextId, flushSnap, flushBase,
                   attempt>>

\* a monitor's loop (user_agent.py lines 129, 262, 371) calls send_message
monitor_send ==
    /\ pc[MainThread] = "tray"
    /\ send_message(MonitorThread)

\* UserAgent.quit (lines 533-552): the monitors are told to stop and
\* self.ipc_client.disconnect() runs, which waits for the lock
quit ==
    /\ UNCHANGED <<serverVars, codecVars, syncVars, attempt>>
    /\ pc[MainThread] = "tray"
    /\ lock = NoOwner
    /\ socket' = "None"
    /\ open_sockets' = IF socket # "None" THEN open_sockets - 1 ELSE open_sockets
    /\ connected' = FALSE
    /\ pc' = [pc EXCEPT ![MainThread] = "exited"]
    /\ UNCHANGED <<lock, message_queue, delivered, message, caller, count, ret,
                   outcome, nextId, flushSnap, flushBase>>

\* the steps of the main thread inside UserAgent.start
MainStep ==
    \/ connect_acquire(MainThread)
    \/ \E ok \in BOOLEAN : connect_body(MainThread, ok)
    \/ flush_queue(MainThread)
    \/ start_retry
    \/ start_monitors

\* the steps of a monitor thread inside send_message()
MonitorStep ==
    \/ send_message_put(MonitorThread)
    \/ send_message_direct_acquire(MonitorThread)
    \/ \E ok \in BOOLEAN : send_message_direct_body(MonitorThread, ok)

AgentNext ==
    \/ start_connect
    \/ monitor_send
    \/ quit
    \/ MainStep
    \/ MonitorStep

(***************************************************************************)
(* Python values and JSON documents                                        *)
(*                                                                         *)
(* A Python value is [ty, v]: its type and its content written as text.    *)
(* A JSON value is [jt, v] likewise.  A dict / JSON object is a function   *)
(* from its keys to values.                                                *)
(***************************************************************************)
PyNone == [ty |-> "NoneType", v |-> ""]
PyStr(x) == [ty |-> "str", v |-> x]

\* Config.IPC_AUTH_TOKEN (config.py line 28)
IPC_AUTH_TOKEN == PyStr("ENTERPRISE_MONITOR_SECRET_2024")

\* the types json.dumps writes and json.loads gives back unchanged
JsonNative == {"str", "int", "float", "NoneType", "list"}

\* payload values a monitor may put into `data`
PyValues ==
    { PyStr("abc"), PyStr(""), PyNone,
      [ty |-> "int", v |-> "7"],
      [ty |-> "list", v |-> "1,2"],
      [ty |-> "tuple", v |-> "1,2"],
      [ty |-> "datetime", v |-> "2024-01-01 00:00:00"] }

\* Python truth value of a value (used by `auth_token or ...`)
Truthy(x) ==
    ~ \/ x.ty = "NoneType"
      \/ (x.ty = "str" /\ x.v = "")
      \/ (x.ty = "int" /\ x.v = "0")

\* json.dumps(..., default=str) on one value: tuples are written as arrays,
\* a value json cannot serialise is replaced by str(value)
dumps(x) ==
    CASE x.ty = "str"      -> [jt |-> "string", v |-> x.v]
      [] x.ty = "int"      -> [jt |-> "number", v |-> x.v]
      [] x.ty = "float"    -> [jt |-> "number", v |-> x.v]
      [] x.ty = "NoneType" -> [jt |-> "null", v |-> ""]
      [] x.ty = "list"     -> [jt |-> "array", v |-> x.v]
      [] x.ty = "tuple"    -> [jt |-> "array", v |-> x.v]
      [] OTHER             -> [jt |-> "string", v |-> x.v]

\* is the text of a JSON number that of a float
IsFloatText(txt) == txt \in {"1.5", "2.5", "9.5"}

\* json.loads on one value
loads(j) ==
    CASE j.jt = "string" -> [ty |-> "str", v |-> j.v]
      [] j.jt = "number" -> [ty |-> IF IsFloatText(j.v) THEN "float" ELSE "int", v |-> j.v]
      [] j.jt = "null"   -> PyNone
      [] j.jt = "array"  -> [ty |-> "list", v |-> j.v]

(***************************************************************************)
(* IPCMessage                                                              *)
(***************************************************************************)
\* IPCMessage.__init__ (lines 23-35); `now` is time.time()
IPCMessage(msg_type, data, auth_token, now) ==
    [msg_type |-> msg_type,
     data |-> data,
     auth_token |-> IF Truthy(auth_token) THEN auth_token ELSE IPC_AUTH_TOKEN,
     timestamp |-> now]

\* IPCMessage.to_json (lines 37-44): the JSON document, as a frame body
to_json(m) ==
    [kind |-> "object",
     obj |-> [msg_type |-> dumps(m.msg_type),
              data |-> [k \in DOMAIN m.data |-> dumps(m.data[k])],
              auth_token |-> dumps(m.auth_token),
              timestamp |-> dumps(m.timestamp)]]

\* from_json that keeps the time of decoding as the message's timestamp
from_json_no_timestamp(body, now) ==
    IF body.kind # "object" THEN [err |-> "JSONDecodeError", msg |-> <<>>]
    ELSE IF "msg_type" \notin DOMAIN body.obj \/ "data" \notin DOMAIN body.obj
    THEN [err |-> "KeyError", msg |-> <<>>]
    ELSE [err |-> "none",
          msg |-> IPCMessage(loads(body.obj.msg_type),
                             [k \in DOMAIN body.obj.data |-> loads(body.obj.data[k])],
                             IF "auth_token" \in DOMAIN body.obj
                             THEN loads(body.obj.auth_token) ELSE PyNone,
                             now)]

\* IPCMessage.from_json (lines 46-56): json.loads raises on a body that is no
\* JSON document, obj['msg_type'] and obj['data'] raise KeyError when the key
\* is missing, obj.get('auth_token') and obj.get('timestamp', ...) do not
from_json(body, now) ==
    IF body.kind # "object" THEN [err |-> "JSONDecodeError", msg |-> <<>>]
    ELSE IF "msg_type" \notin DOMAIN body.obj \/ "data" \notin DOMAIN body.obj
    THEN [err |-> "KeyError", msg |-> <<>>]
    ELSE LET msg == IPCMessage(loads(body.obj.msg_type),
                               [k \in DOMAIN body.obj.data |-> loads(body.obj.data[k])],
                               IF "auth_token" \in DOMAIN body.obj
                               THEN loads(body.obj.auth_token) ELSE PyNone,
                               now)
         IN [err |-> "none",
             msg |-> [msg EXCEPT !.timestamp =
                        IF "timestamp" \in DOMAIN body.obj
                        THEN loads(body.obj.timestamp) ELSE now]]

\* ---- inputs of the codec ----
MsgTypes == {PyStr("ping"), PyStr("clipboard")}
Payloads == {<<>>} \cup {[k \in {"k"} |-> x] : x \in PyValues}
TokenArgs == {PyNone, PyStr(""), IPC_AUTH_TOKEN, PyStr("wrong")}
Times == {[ty |-> "float", v |-> "1.5"], [ty |-> "float", v |-> "2.5"]}
\* time.time() at the moment of decoding
DecodeTime == [ty |-> "float", v |-> "9.5"]

\* the payload is representable in JSON
ValidEnvelope(e) == \A k \in DOMAIN e.data : e.data[k].ty \in JsonNative

CodecInit ==
    /\ env \in {IPCMessage(mt, d, tok, now) :
                  mt \in MsgTypes, d \in Payloads, tok \in TokenArgs, now \in Times}
    /\ wire = [kind |-> "none", obj |-> <<>>]
    /\ decoded = <<>>
    /\ cphase = "new"

\* e.to_json()
Encode ==
    /\ UNCHANGED <<clientVars, serverVars, syncVars>>
    /\ cphase = "new"
    /\ wire' = to_json(env)
    /\ cphase' = "encoded"
    /\ UNCHANGED <<env, decoded>>

\* IPCMessage.from_json(...) of the encoded text
Decode ==
    /\ UNCHANGED <<clientVars, serverVars, syncVars>>
    /\ cphase = "encoded"
    /\ decoded' = from_json(wire, DecodeTime)
    /\ cphase' = "decoded"
    /\ UNCHANGED <<env, wire>>

CodecNext == Encode \/ Decode

(***************************************************************************)
(* IPCServer                                                               *)
(***************************************************************************)
\* frames the peers send to a server that keeps running
MaxFrames == 2
\* frames the peers send to a server that is stopped and restarted
MaxFramesStopped == 1
\* connections a behaviour may open
NumConns == 2
Conns == 1..NumConns

\* the kinds with a registered handler (register_handler, lines 83-92)
message_handlers == {PyStr("ping")}

\* what a peer may put into the fields of a frame's JSON object
Absent == [present |-> FALSE, val |-> [jt |-> "null", v |-> ""]]
Given(j) == [present |-> TRUE, val |-> j]
KindOptions == {Absent, Given(dumps(PyStr("ping"))), Given(dumps(PyStr("bogus")))}
CredentialOptions ==
    {Absent, Given(dumps(IPC_AUTH_TOKEN)), Given(dumps(PyStr("wrong"))),
     Given(dumps(PyStr(""))), Given(dumps(PyNone))}
TimestampOptions == {Absent, Given([jt |-> "number", v |-> "1.5"])}
DataOptions == {FALSE, TRUE}
PingData == [agent_id |-> dumps(PyStr("abc"))]

\* the JSON object with exactly the given fields
FrameObject(mt, hasData, tok, ts) ==
    LET fields == (IF mt.present THEN {"msg_type"} ELSE {})
                  \cup (IF hasData THEN {"data"} ELSE {})
                  \cup (IF tok.present THEN {"auth_token"} ELSE {})
                  \cup (IF ts.present THEN {"timestamp"} ELSE {})
    IN [f \in fields |->
          CASE f = "msg_type"   -> mt.val
            [] f = "data"       -> PingData
            [] f = "auth_token" -> tok.val
            [] f = "timestamp"  -> ts.val]

\* frame bodies: JSON objects, a body that is no JSON document, and the body
\* of a frame whose length prefix is zero
FrameBodies ==
    {[kind |-> "object", obj |-> FrameObject(mt, d, tok, ts)] :
        mt \in KindOptions, d \in DataOptions,
        tok \in CredentialOptions, ts \in TimestampOptions}
    \cup {[kind |-> "invalid", obj |-> <<>>], [kind |-> "empty", obj |-> <<>>]}

\* _server_loop threads a behaviour may start
MaxLoops == 2
Loops == 1..MaxLoops

\* IPCServer.__init__ (lines 65-81)
ServerInit ==
    /\ running = FALSE
    /\ server_socket = "None"
    /\ connected_clients = <<>>
    /\ loop_pc = [l \in Loops |-> "unborn"]
    /\ sock = [c \in Conns |-> "none"]
    /\ hpc = [c \in Conns |-> "none"]
    /\ stop_pc = "idle"
    /\ stop_i = 0
    /\ handled = <<>>
    /\ nFrames = 0
    /\ written = [c \in Conns |-> 0]
    /\ incoming \in {MaxFramesStopped, MaxFrames}
    /\ stopSnap = {}
    /\ stopped = FALSE

\* list.remove(x): the list without the first occurrence of x
list_remove(lst, x) ==
    IF \E k \in 1..Len(lst) : lst[k] = x
    THEN LET k == CHOOSE k \in 1..Len(lst) : lst[k] = x /\ \A m \in 1..(k - 1) : lst[m] # x
         IN SubSeq(lst, 1, k - 1) \o SubSeq(lst, k + 1, Len(lst))
    ELSE lst

\* start() without the `if self.running: return` guard
start_thread_unguarded(run, lp) ==
    IF \A l \in Loops : lp[l] # "unborn"
    THEN [running |-> TRUE, loop_pc |-> lp]
    ELSE LET l == CHOOSE l \in Loops : lp[l] = "unborn" /\ \A m \in Loops : lp[m] = "unborn" => l <= m
         IN [running |-> TRUE, loop_pc |-> [lp EXCEPT ![l] = "init"]]

\* IPCServer.start (lines 94-104): what it makes of self.running and of the
\* server-loop threads; an already running server is left as it is
start_thread(run, lp) ==
    IF run
    THEN [running |-> run, loop_pc |-> lp]
    ELSE LET l == CHOOSE l \in Loops : lp[l] = "unborn" /\ \A m \in Loops : lp[m] = "unborn" => l <= m
         IN [running |-> TRUE, loop_pc |-> [lp EXCEPT ![l] = "init"]]

\* IPCServer.start (lines 94-104)
start ==
    /\ UNCHANGED <<clientVars, codecVars, syncVars, incoming, written>>
    /\ running \/ \E l \in Loops : loop_pc[l] = "unborn"
    /\ running' = start_thread(running, loop_pc).running
    /\ loop_pc' = start_thread(running, loop_pc).loop_pc
    /\ stopped' = FALSE
    /\ UNCHANGED <<server_socket, connected_clients, sock, hpc, stop_pc,
                   stop_i, handled, nFrames, stopSnap>>

\* _server_loop, lines 128-136: create the socket, bind, listen; `ok` is
\* whether bind succeeds (if not, the exception ends the thread)
server_loop_init(l, ok) ==
    /\ UNCHANGED <<clientVars, codecVars, syncVars, incoming, written>>
    /\ loop_pc[l] = "init"
    /\ server_socket' = IF ok THEN "listening" ELSE "created"
    /\ loop_pc' = [loop_pc EXCEPT ![l] = IF ok THEN "check" ELSE "ended"]
    /\ UNCHANGED <<running, connected_clients, sock, hpc, stop_pc, stop_i,
                   handled, nFrames, stopSnap, stopped>>

\* the loop test as `while True`: the accept loop never looks at self.running
server_loop_forever(l) ==
    /\ UNCHANGED <<clientVars, codecVars, syncVars, incoming, written>>
    /\ loop_pc[l] = "check"
    /\ loop_pc' = [loop_pc EXCEPT ![l] = "accept"]
    /\ UNCHANGED <<running, server_socket, connected_clients, sock, hpc,
                   stop_pc, stop_i, handled, nFrames, stopSnap, stopped>>

\* _server_loop, line 138: `while self.running`
server_loop_check(l) ==
    /\ UNCHANGED <<clientVars, codecVars, syncVars, incoming, written>>
    /\ loop_pc[l] = "check"
    /\ loop_pc' = [loop_pc EXCEPT ![l] = IF running THEN "accept" ELSE "ended"]
    /\ UNCHANGED <<running, server_socket, connected_clients, sock, hpc,
                   stop_pc, stop_i, handled, nFrames, stopSnap, stopped>>

\* _server_loop, lines 141-150: accept() returns connection c and its
\* _handle_client thread is started
accept(l, c) ==
    /\ UNCHANGED <<clientVars, codecVars, syncVars, incoming, written>>
    /\ loop_pc[l] = "accept"
    /\ server_socket = "listening"
    /\ sock[c] = "none"
    /\ sock' = [sock EXCEPT ![c] = "open"]
    /\ hpc' = [hpc EXCEPT ![c] = "start"]
    /\ loop_pc' = [loop_pc EXCEPT ![l] = "check"]
    /\ UNCHANGED <<running, server_socket, connected_clients, stop_pc,
                   stop_i, handled, nFrames, stopSnap, stopped>>

\* _server_loop, lines 152-157: accept() times out, or raises because the
\* socket was closed; back to the loop test
accept_nothing(l) ==
    /\ UNCHANGED <<clientVars, codecVars, syncVars, incoming, written>>
    /\ loop_pc[l] = "accept"
    /\ loop_pc' = [loop_pc EXCEPT ![l] = "check"]
    /\ UNCHANGED <<running, server_socket, connected_clients, sock, hpc,
                   stop_pc, stop_i, handled, nFrames, stopSnap, stopped>>

\* IPCServer.stop, line 108: self.running = False
stop ==
    /\ UNCHANGED <<clientVars, codecVars, syncVars, incoming, written>>
    /\ stop_pc = "idle"
    /\ running' = FALSE
    /\ stop_pc' = "server"
    /\ stopSnap' = Range(connected_clients)
    /\ UNCHANGED <<server_socket, connected_clients, loop_pc, sock, hpc,
                   stop_i, handled, nFrames, stopped>>

\* IPCServer.stop, lines 111-115: close the server socket if there is one
stop_close_server ==
    /\ UNCHANGED <<clientVars, codecVars, syncVars, incoming, written>>
    /\ stop_pc = "server"
    /\ server_socket' = IF server_socket = "None" THEN "None" ELSE "closed"
    /\ stop_pc' = "clients"
    /\ stop_i' = 0
    /\ UNCHANGED <<running, connected_clients, loop_pc, sock, hpc, handled,
                   nFrames, stopSnap, stopped>>

\* IPCServer.stop, lines 118-124: one step of `for client in
\* self.connected_clients`: the list iterator yields the element at its index
\* in the list as it is now, or ends the loop, and stop() returns
stop_close_client ==
    /\ UNCHANGED <<clientVars, codecVars, syncVars, incoming, written>>
    /\ stop_pc = "clients"
    /\ IF stop_i < Len(connected_clients)
       THEN /\ sock' = [sock EXCEPT ![connected_clients[stop_i + 1]] = "closed"]
            /\ stop_i' = stop_i + 1
            /\ UNCHANGED <<stop_pc, stopped, stopSnap>>
       ELSE /\ stop_pc' = "idle"
            /\ stop_i' = 0
            /\ stopped' = ~running
            /\ stopSnap' = {}
            /\ sock' = sock
    /\ UNCHANGED <<running, server_socket, connected_clients, loop_pc, hpc,
                   handled, nFrames>>

\* _handle_client, line 166: the thread adds its socket to the active set
handle_client_start(c) ==
    /\ UNCHANGED <<clientVars, codecVars, syncVars, incoming, written>>
    /\ hpc[c] = "start"
    /\ connected_clients' = Append(connected_clients, c)
    /\ hpc' = [hpc EXCEPT ![c] = "check"]
    /\ UNCHANGED <<running, server_socket, loop_pc, sock, stop_pc, stop_i,
                   handled, nFrames, stopSnap, stopped>>

\* _handle_client, line 169: `while self.running`
handle_client_check(c) ==
    /\ UNCHANGED <<clientVars, codecVars, syncVars, incoming, written>>
    /\ hpc[c] = "check"
    /\ hpc' = [hpc EXCEPT ![c] = IF running THEN "recv" ELSE "finally"]
    /\ UNCHANGED <<running, server_socket, connected_clients, loop_pc, sock,
                   stop_pc, stop_i, handled, nFrames, stopSnap, stopped>>

\* the outcome of lines 183-195 and _process_message (lines 224-234) for a
\* frame body: "error", "auth_rejected", "no_handler" or "dispatched"
process_frame(body) ==
    LET r == from_json(body, DecodeTime) IN
    IF r.err # "none" THEN "error"
    ELSE IF r.msg.auth_token # IPC_AUTH_TOKEN THEN "auth_rejected"
    ELSE IF r.msg.msg_type \in message_handlers THEN "dispatched"
    ELSE "no_handler"

\* what each frame body comes to, and the message it decodes to
FrameOutcome == [body \in FrameBodies |-> process_frame(body)]
FrameMessage == [body \in FrameBodies |-> from_json(body, DecodeTime).msg]

\* whether the handler raises, for the frames that reach a handler
HandlerOutcomes(body) ==
    IF FrameOutcome[body] = "dispatched" THEN BOOLEAN ELSE {FALSE}

\* a _process_message that calls the handler a second time
process_message_twice(h, msg, raises) ==
    LET call == [msg_type |-> msg.msg_type, data |-> msg.data, raised |-> raises]
    IN Append(Append(h, call), call)

\* _process_message (lines 224-234) for a kind that has a handler: the
\* handler is called with message.data; `raises` is whether it raises
process_message(h, msg, raises) ==
    Append(h, [msg_type |-> msg.msg_type, data |-> msg.data, raised |-> raises])

\* a handler's exception that ends the connection's loop
after_handler_fatal(raises) == IF raises THEN "finally" ELSE "check"

\* lines 229-232: the handler's exception is caught and logged, and
\* _handle_client goes back to its loop test either way
after_handler(raises) == "check"

\* _handle_client, lines 170-195: one turn of the loop. A frame with the
\* given body is read from the open socket, decoded, checked and dispatched;
\* a zero-length body makes _recv_exact return b'' and the loop break.
\* Nothing on this path calls client_socket.send: `written` stays as it is
handle_client(c, body, raises) ==
    /\ UNCHANGED <<clientVars, codecVars, syncVars, incoming, written>>
    /\ hpc[c] = "recv"
    /\ sock[c] = "open"
    /\ nFrames < incoming
    /\ nFrames' = nFrames + 1
    /\ LET dispatched == body.kind # "empty" /\ FrameOutcome[body] = "dispatched" IN
       /\ handled' = IF dispatched
                     THEN process_message(handled, FrameMessage[body], raises)
                     ELSE handled
       /\ hpc' = [hpc EXCEPT ![c] = IF body.kind = "empty" THEN "finally"
                                    ELSE IF dispatched THEN after_handler(raises)
                                    ELSE "check"]
    /\ UNCHANGED <<running, server_socket, connected_clients, loop_pc, sock, stop_pc,
                   stop_i, stopSnap, stopped>>

\* _handle_client, lines 171-173 and _recv_exact: recv returns b'' (the peer
\* closed the connection) or raises (the socket was closed): the loop breaks
peer_close(c) ==
    /\ UNCHANGED <<clientVars, codecVars, syncVars, incoming, written>>
    /\ hpc[c] = "recv"
    /\ hpc' = [hpc EXCEPT ![c] = "finally"]
    /\ UNCHANGED <<running, server_socket, connected_clients, loop_pc, sock,
                   stop_pc, stop_i, handled, nFrames, stopSnap, stopped>>

\* _handle_client, lines 199-208: close the socket, leave the active set
handle_client_finally(c) ==
    /\ UNCHANGED <<clientVars, codecVars, syncVars, incoming, written>>
    /\ hpc[c] = "finally"
    /\ sock' = [sock EXCEPT ![c] = "closed"]
    /\ connected_clients' = list_remove(connected_clients, c)
    /\ hpc' = [hpc EXCEPT ![c] = "done"]
    /\ UNCHANGED <<running, server_socket, loop_pc, stop_pc, stop_i, handled,
                   nFrames, stopSnap, stopped>>

ServerNext ==
    \/ start
    \/ \E l \in Loops, ok \in BOOLEAN : server_loop_init(l, ok)
    \/ \E l \in Loops : server_loop_check(l)
    \/ \E l \in Loops, c \in Conns : accept(l, c)
    \/ \E l \in Loops : accept_nothing(l)
    \/ stop
    \/ stop_close_server
    \/ stop_close_client
    \/ \E c \in Conns : handle_client_start(c)
    \/ \E c \in Conns : handle_client_check(c)
    \/ \E c \in Conns, body \in FrameBodies : \E raises \in HandlerOutcomes(body) :
          handle_client(c, body, raises)
    \/ \E c \in Conns : peer_close(c)
    \/ \E c \in Conns : handle_client_finally(c)

\* the steps of a server that is started and never stopped
ServingNext ==
    \/ start
    \/ \E l \in Loops, ok \in BOOLEAN : server_loop_init(l, ok)
    \/ \E l \in Loops : server_loop_check(l)
    \/ \E l \in Loops, c \in Conns : accept(l, c)
    \/ \E l \in Loops : accept_nothing(l)
    \/ \E c \in Conns : handle_client_start(c)
    \/ \E c \in Conns : handle_client_check(c)
    \/ \E c \in Conns, body \in FrameBodies : \E raises \in HandlerOutcomes(body) :
          handle_client(c, body, raises)
    \/ \E c \in Conns : peer_close(c)
    \/ \E c \in Conns : handle_client_finally(c)

(***************************************************************************)
(* ServiceWatchdog: the record tables and sync_data_to_server               *)
(***************************************************************************)

\* rows the three tables may hold together
MaxRecords == 3
\* Config.SYNC_BATCH_SIZE (100 in config.py), scaled down
SYNC_BATCH_SIZE == 2
\* the LIMIT of the three SELECT statements: the literal 100, the value of
\* Config.SYNC_BATCH_SIZE, which no configuration file overrides
SELECT_LIMIT == SYNC_BATCH_SIZE
\* threads that can be inside sync_data_to_server: thread 1 is _sync_loop,
\* the others are started by sync_now commands
NumPasses == 2
Passes == 1..NumPasses
\* the timestamps a collector may put on a record
RecordTimes == {1, 2}

\* the record classes in the order sync_data_to_server goes through them
ClassOrder == <<"clipboard_events", "app_usage", "screenshots">>
Classes == Range(ClassOrder)

NoStats == [clipboard_events |-> 0, app_usage |-> 0, screenshots |-> 0, failed |-> 0]

min(a, b) == IF a <= b THEN a ELSE b

\* the tables after init_database, no thread syncing
SyncInit ==
    /\ ENABLE_SERVER_SYNC \in BOOLEAN
    /\ table = [cls \in Classes |-> <<>>]
    /\ db_lock = "none"
    /\ ppc = [p \in Passes |-> "idle"]
    /\ pcls = [p \in Passes |-> 1]
    /\ batch = [p \in Passes |-> <<>>]
    /\ sync_stats = [p \in Passes |-> NoStats]
    /\ confirmed = {}

TotalRows == Len(table["clipboard_events"]) + Len(table["app_usage"])
             + Len(table["screenshots"])

\* an INSERT that stores the row as already synced
insert_row_synced(ts) == [timestamp |-> ts, synced |-> 1, deleted |-> FALSE]

\* the row an INSERT creates: the statement names no synced column, so the
\* column takes its DEFAULT 0 (_create_tables, lines 68-115)
insert_row(ts) == [timestamp |-> ts, synced |-> 0, deleted |-> FALSE]

\* log_screenshot / log_clipboard_event / log_app_usage: under
\* DatabaseManager.lock, INSERT of one row; the id is the next AUTOINCREMENT
\* value
log_record(cls, ts) ==
    /\ UNCHANGED <<clientVars, serverVars, codecVars, db_lock>>
    /\ db_lock = "none"
    /\ TotalRows < MaxRecords
    /\ table' = [table EXCEPT ![cls] = Append(@, insert_row(ts))]
    /\ UNCHANGED <<ENABLE_SERVER_SYNC, ppc, pcls, batch, sync_stats, confirmed>>

\* the WHERE clause without the test of the synced column
unsynced_any(tbl) == {i \in 1..Len(tbl) : ~tbl[i].deleted}

\* WHERE synced IS NULL OR synced = 0: the ids of the rows it keeps
unsynced(tbl) == {i \in 1..Len(tbl) : ~tbl[i].deleted /\ tbl[i].synced = 0}

\* ORDER BY timestamp ASC without the LIMIT
order_unlimited(tbl, ids) ==
    {b \in [1..Cardinality(ids) -> ids] :
        /\ \A m, n \in DOMAIN b : m < n => b[m] # b[n] /\ tbl[b[m]].timestamp <= tbl[b[n]].timestamp}

\* ORDER BY timestamp ASC LIMIT 100: the result lists the rows may come in
\* (rows of equal timestamp come in an order the database chooses)
order_limit(tbl, ids) ==
    {b \in [1..min(Cardinality(ids), SELECT_LIMIT) -> ids] :
        /\ \A m, n \in DOMAIN b : m < n => b[m] # b[n] /\ tbl[b[m]].timestamp <= tbl[b[n]].timestamp
        /\ \A i \in ids \ Range(b) : \A m \in DOMAIN b : tbl[b[m]].timestamp <= tbl[i].timestamp}

\* an UPDATE that marks every unsynced row of the table
mark_all_synced(tbl, ids) ==
    [i \in 1..Len(tbl) |-> [tbl[i] EXCEPT !.synced = 1]]

\* an UPDATE whose WHERE clause matches no row
mark_none(tbl, ids) == tbl

\* UPDATE ... SET synced = 1 WHERE id IN (ids)
mark_synced(tbl, ids) ==
    [i \in 1..Len(tbl) |-> IF i \in ids /\ ~tbl[i].deleted
                           THEN [tbl[i] EXCEPT !.synced = 1] ELSE tbl[i]]

\* the branches after _send_to_server, with a failure left uncounted
after_send_uncounted(stats, cls, n, success) ==
    IF success THEN [stats EXCEPT ![cls] = n] ELSE stats

\* lines 243-256 (and the same for the other classes): what the outcome of
\* _send_to_server makes of sync_stats for a batch of n records
after_send(stats, cls, n, success) ==
    IF success THEN [stats EXCEPT ![cls] = n]
    ELSE [stats EXCEPT !.failed = @ + n]

\* _send_to_server: `requests` is the imported module or None, `raises` is
\* whether building the request raises. The request itself is never posted:
\* the call of requests.post stands inside a string literal
send_to_server(enabled, requests, raises) ==
    IF ~enabled THEN [success |-> FALSE, posted |-> FALSE]
    ELSE IF requests = "None" THEN [success |-> TRUE, posted |-> FALSE]
    ELSE IF raises THEN [success |-> FALSE, posted |-> FALSE]
    ELSE [success |-> TRUE, posted |-> FALSE]

\* a pass that ends after the class it has just handled
end_pass(k) == [ppc |-> "end", pcls |-> k]

\* a thread that goes back to the class it has just handled
same_class(k) == [ppc |-> "select", pcls |-> k]

\* sync_data_to_server goes through the classes once, one SELECT each
next_class(k) ==
    IF k < Len(ClassOrder) THEN [ppc |-> "select", pcls |-> k + 1]
    ELSE [ppc |-> "end", pcls |-> k]

\* a thread enters sync_data_to_server (lines 183-205)
begin_pass(p) ==
    /\ ppc[p] = "idle"
    /\ ppc' = [ppc EXCEPT ![p] = "select"]
    /\ pcls' = [pcls EXCEPT ![p] = 1]
    /\ batch' = [batch EXCEPT ![p] = <<>>]
    /\ sync_stats' = [sync_stats EXCEPT ![p] = NoStats]
    /\ UNCHANGED <<ENABLE_SERVER_SYNC, table, confirmed>>

\* _sync_loop (lines 615-622): the periodic thread, started by start() only
\* if sync is enabled, runs a pass
sync_loop ==
    /\ UNCHANGED <<clientVars, serverVars, codecVars, db_lock>>
    /\ ENABLE_SERVER_SYNC
    /\ begin_pass(1)

\* _handle_command (lines 151-154): sync_now starts a new thread on
\* sync_data_to_server
handle_command_sync_now(p) ==
    /\ UNCHANGED <<clientVars, serverVars, codecVars, db_lock>>
    /\ p # 1
    /\ begin_pass(p)

\* the `cmd` of a command payload: the three known commands, an unknown one,
\* and None for a payload without the field (data.get('cmd'))
Commands == {"sync_now", "export_data", "get_stats", "bogus", "None"}

\* a _handle_command that treats an unknown command as sync_now
command_effect_default_sync(cmd, fails) ==
    [thread |-> IF fails THEN "none"
                ELSE IF cmd = "export_data" THEN "export_data_to_json"
                ELSE IF cmd = "get_stats" THEN "none"
                ELSE "sync_data_to_server",
     raised |-> FALSE]

\* _handle_command (lines 145-170): the thread the command starts and
\* whether an exception leaves the method. `fails` is whether a call inside
\* the try block raises; `except Exception` (line 169) catches it
command_effect(cmd, fails) ==
    [thread |-> IF fails THEN "none"
                ELSE IF cmd = "sync_now" THEN "sync_data_to_server"
                ELSE IF cmd = "export_data" THEN "export_data_to_json"
                ELSE "none",
     raised |-> FALSE]

\* _handle_command (lines 145-170) for any payload: sync_now starts a thread
\* on sync_data_to_server and returns; export_data starts a thread that
\* reads the tables, get_stats reads them, anything else is logged, and none
\* of these changes a record, a pass or the configuration
handle_command(cmd, fails) ==
    /\ UNCHANGED <<clientVars, serverVars, codecVars, db_lock>>
    /\ IF command_effect(cmd, fails).thread = "sync_data_to_server"
       THEN \E p \in Passes : handle_command_sync_now(p)
       ELSE UNCHANGED syncVars

\* the SELECT of the class the thread is at (lines 207-218, 258-266, 303-311)
sync_select(p) ==
    /\ UNCHANGED <<clientVars, serverVars, codecVars, db_lock>>
    /\ ppc[p] = "select"
    /\ LET tbl == table[ClassOrder[pcls[p]]] IN
       \E b \in order_limit(tbl, unsynced(tbl)) :
          /\ batch' = [batch EXCEPT ![p] = b]
          /\ IF b = <<>>
             THEN /\ ppc' = [ppc EXCEPT ![p] = next_class(pcls[p]).ppc]
                  /\ pcls' = [pcls EXCEPT ![p] = next_class(pcls[p]).pcls]
             ELSE /\ ppc' = [ppc EXCEPT ![p] = "send"]
                  /\ pcls' = pcls
    /\ UNCHANGED <<ENABLE_SERVER_SYNC, table, sync_stats, confirmed>>

\* lines 240-256 (and 287-301, 335-349): hand the batch to _send_to_server,
\* then mark it synced or count it as failed
sync_submit(p, requests, raises) ==
    /\ UNCHANGED <<clientVars, serverVars, codecVars, db_lock>>
    /\ ppc[p] = "send"
    /\ LET cls == ClassOrder[pcls[p]]
           r == send_to_server(ENABLE_SERVER_SYNC, requests, raises)
       IN /\ table' = IF r.success
                      THEN [table EXCEPT ![cls] = mark_synced(@, Range(batch[p]))]
                      ELSE table
          /\ sync_stats' = [sync_stats EXCEPT
                               ![p] = after_send(@, cls, Len(batch[p]), r.success)]
          /\ confirmed' = IF r.posted /\ r.success
                          THEN confirmed \cup {<<cls, i>> : i \in Range(batch[p])}
                          ELSE confirmed
    /\ ppc' = [ppc EXCEPT ![p] = next_class(pcls[p]).ppc]
    /\ pcls' = [pcls EXCEPT ![p] = next_class(pcls[p]).pcls]
    /\ UNCHANGED <<ENABLE_SERVER_SYNC, batch>>

\* lines 351-368: close the connection, log the statistics; the thread ends
sync_end(p) ==
    /\ UNCHANGED <<clientVars, serverVars, codecVars, db_lock>>
    /\ ppc[p] = "end"
    /\ ppc' = [ppc EXCEPT ![p] = "idle"]
    /\ pcls' = [pcls EXCEPT ![p] = 1]
    /\ batch' = [batch EXCEPT ![p] = <<>>]
    /\ sync_stats' = [sync_stats EXCEPT ![p] = NoStats]
    /\ UNCHANGED <<ENABLE_SERVER_SYNC, table, confirmed>>

\* the cutoff timestamps cleanup_old_data may compute from the clock
Cutoffs == 1..3

\* a DELETE without a WHERE clause
delete_all(cls, row, cutoff_date, screenshot_cutoff) == TRUE

\* the WHERE clauses of cleanup_old_data's DELETE statements (lines 358-376)
delete_where(cls, row, cutoff_date, screenshot_cutoff) ==
    IF cls = "screenshots"
    THEN /\ row.timestamp < screenshot_cutoff
         /\ (row.synced = 1 \/ row.timestamp < screenshot_cutoff)
    ELSE row.timestamp < cutoff_date /\ row.synced = 1

\* DatabaseManager.cleanup_old_data, line 348: `with self.lock`
cleanup_old_data ==
    /\ UNCHANGED <<clientVars, serverVars, codecVars>>
    /\ db_lock = "none"
    /\ db_lock' = "cleanup_old_data"
    /\ UNCHANGED <<ENABLE_SERVER_SYNC, table, ppc, pcls, batch, sync_stats, confirmed>>

\* cleanup_old_data, lines 349-398: the cutoffs are computed, the DELETE
\* statements run and are committed, the lock is released
cleanup_old_data_commit(cutoff_date, screenshot_cutoff) ==
    /\ UNCHANGED <<clientVars, serverVars, codecVars>>
    /\ db_lock = "cleanup_old_data"
    /\ db_lock' = "none"
    /\ table' = [cls \in Classes |->
                   [i \in 1..Len(table[cls]) |->
                      IF /\ ~table[cls][i].deleted
                         /\ delete_where(cls, table[cls][i], cutoff_date, screenshot_cutoff)
                      THEN [table[cls][i] EXCEPT !.deleted = TRUE]
                      ELSE table[cls][i]]]
    /\ UNCHANGED <<ENABLE_SERVER_SYNC, ppc, pcls, batch, sync_stats, confirmed>>

\* Config.update_from_custom_config (config.py lines 154-181): the settings
\* file is read and every option it holds is set on the Config class, at
\* whatever moment it is called; `setting` is the file's enable_server_sync
\* ("true" or "false"), or "absent"
update_from_custom_config(setting) ==
    /\ UNCHANGED <<clientVars, serverVars, codecVars, db_lock>>
    /\ ENABLE_SERVER_SYNC' = IF setting = "absent" THEN ENABLE_SERVER_SYNC
                             ELSE setting = "true"
    /\ UNCHANGED <<table, ppc, pcls, batch, sync_stats, confirmed>>

SyncNext ==
    \/ \E cls \in Classes, ts \in RecordTimes : log_record(cls, ts)
    \/ sync_loop
    \/ \E cmd \in Commands, fails \in BOOLEAN : handle_command(cmd, fails)
    \/ \E p \in Passes : sync_select(p)
    \/ \E p \in Passes, requests \in {"module", "None"}, raises \in BOOLEAN :
          sync_submit(p, requests, raises)
    \/ \E p \in Passes : sync_end(p)

\* the periodic passes (no command arrives) while the configuration may be
\* reloaded
SyncConfigNext ==
    \/ \E cls \in Classes, ts \in RecordTimes : log_record(cls, ts)
    \/ sync_loop
    \/ \E p \in Passes : sync_select(p)
    \/ \E p \in Passes, requests \in {"module", "None"}, raises \in BOOLEAN :
          sync_submit(p, requests, raises)
    \/ \E p \in Passes : sync_end(p)
    \/ \E setting \in {"absent", "true", "false"} : update_from_custom_config(setting)

\* the store under its three users: the handlers that insert, the periodic
\* sync pass and the periodic cleanup
StoreNext ==
    \/ \E cls \in Classes, ts \in RecordTimes : log_record(cls, ts)
    \/ sync_loop
    \/ \E p \in Passes : sync_select(p)
    \/ \E p \in Passes, requests \in {"module", "None"}, raises \in BOOLEAN :
          sync_submit(p, requests, raises)
    \/ \E p \in Passes : sync_end(p)
    \/ cleanup_old_data
    \/ \E cutoff_date, screenshot_cutoff \in Cutoffs :
          cleanup_old_data_commit(cutoff_date, screenshot_cutoff)

\* the store while the periodic pass runs against a remote endpoint that
\* accepts every batch: no call of _send_to_server raises
AcceptingNext ==
    \/ \E cls \in Classes, ts \in RecordTimes : log_record(cls, ts)
    \/ sync_loop
    \/ \E p \in Passes : sync_select(p)
    \/ \E p \in Passes, requests \in {"module", "None"} : sync_submit(p, requests, FALSE)
    \/ \E p \in Passes : sync_end(p)
    \/ cleanup_old_data
    \/ \E cutoff_date, screenshot_cutoff \in Cutoffs :
          cleanup_old_data_commit(cutoff_date, screenshot_cutoff)

vars == <<clientVars, serverVars, codecVars, syncVars>>

\* the parts a specification does not exercise stay in their initial state
ClientIdle == ClientInit
CodecIdle ==
    /\ env = IPCMessage(PyStr("ping"), <<>>, PyNone, [ty |-> "float", v |-> "1.5"])
    /\ wire = [kind |-> "none", obj |-> <<>>]
    /\ decoded = <<>>
    /\ cphase = "new"
ServerIdle == ServerInit /\ incoming = MaxFramesStopped
SyncIdle == SyncInit /\ ENABLE_SERVER_SYNC

\* ---- the client: threads calling into one IPCClient ----
Init == ClientInit /\ ServerIdle /\ CodecIdle /\ SyncIdle
Next == ClientNext
Spec == Init /\ [][Next]_vars

\* every thread inside a method keeps running; a thread waiting for the lock
\* gets it if the lock is free again and again
FairSpec == Spec /\ \A t \in Threads : SF_vars(Step(t))

\* ---- the user agent: UserAgent.start, the monitors, quit ----
\* Both threads keep running while they can take a step, and a connect() that
\* is attempted while the server is reachable succeeds
AgentFairSpec ==
    /\ Init
    /\ [][AgentNext]_vars
    /\ WF_vars(start_connect \/ MainStep)
    /\ WF_vars(MonitorStep)
    /\ SF_vars(connect_body(MainThread, TRUE))

\* ---- the server: frames arriving on accepted connections ----
ServerSpecInit ==
    ClientIdle /\ ServerInit /\ incoming = MaxFramesStopped /\ CodecIdle /\ SyncIdle
ServerSpec == ServerSpecInit /\ [][ServerNext]_vars

\* a step of the _server_loop thread l
LoopStep(l) ==
    \/ \E ok \in BOOLEAN : server_loop_init(l, ok)
    \/ server_loop_check(l)
    \/ \E c \in Conns : accept(l, c)
    \/ accept_nothing(l)

\* every _server_loop thread that can take a step eventually takes one
ServerFairSpec == ServerSpec /\ \A l \in Loops : WF_vars(LoopStep(l))

\* ---- the server while it keeps running: no stop() ----
ServingSpecInit ==
    ClientIdle /\ ServerInit /\ incoming = MaxFrames /\ CodecIdle /\ SyncIdle
ServingSpec == ServingSpecInit /\ [][ServingNext]_vars

\* ---- the codec: one message encoded and decoded ----
CodecSpecInit == ClientIdle /\ ServerIdle /\ CodecInit /\ SyncIdle
CodecSpec == CodecSpecInit /\ [][CodecNext]_vars

\* ---- the sync engine: records logged while threads sync ----
SyncSpecInit == ClientIdle /\ ServerIdle /\ CodecIdle /\ SyncInit
SyncSpec == SyncSpecInit /\ [][SyncNext]_vars

\* ---- the periodic sync of a watchdog started with sync enabled, whose
\* configuration may be reloaded at any moment ----
SyncConfigSpecInit == ClientIdle /\ ServerIdle /\ CodecIdle /\ SyncIdle
SyncConfigSpec == SyncConfigSpecInit /\ [][SyncConfigNext]_vars

\* ---- the store: inserts, the periodic sync and the periodic cleanup ----
StoreSpecInit == ClientIdle /\ ServerIdle /\ CodecIdle /\ SyncIdle
StoreSpec == StoreSpecInit /\ [][StoreNext]_vars

\* ---- the periodic sync against an accepting remote endpoint ----
\* _sync_loop starts a pass every SYNC_INTERVAL_SECONDS while the service
\* runs, and the thread inside a pass keeps running to the end of the pass
AcceptingFairSpec ==
    /\ StoreSpecInit
    /\ [][AcceptingNext]_vars
    /\ WF_vars(sync_loop)
    /\ \A p \in Passes :
          /\ WF_vars(sync_select(p))
          /\ WF_vars(\E requests \in {"module", "None"} : sync_submit(p, requests, FALSE))
          /\ WF_vars(sync_end(p))

(***************************************************************************)
(* Claims about the IPCClient                                              *)
(***************************************************************************)

\* the thread's connect() has established the connection and is flushing
Flushing(t) == pc[t] = "fl_loop" \/ (caller[t] = "flush" /\ pc[t] # "idle")

\* what the server received since the thread's flush began
FlushedSoFar(t) == SubSeq(delivered, flushBase[t] + 1, Len(delivered))

\* C1 -- FIFO flush: once connect() has established the connection with N >= 1
\* messages queued while disconnected, connect() returns True and the server
\* has received those N messages, consecutively and in the order they were
\* enqueued.
C1_FifoFlush ==
    \A t \in Threads :
        (pc[t] = "fl_loop" /\ flushSnap[t] # <<>>)
            ~> (pc[t] = "idle" /\ ret[t] = "True" /\ IsInfix(flushSnap[t], delivered))

\* C2 -- when a send_message call made while connected fails to transmit, the
\* client is marked disconnected and the message is in the outbound queue
\* when the call returns.
C2_FailedSendIsQueued ==
    [][\A t \in Threads :
          (pc[t] = "smd_body" /\ caller[t] = "send_message" /\ outcome'[t] = "failed")
              => /\ connected' = FALSE
                 /\ \E i \in 1..Len(message_queue') : message_queue'[i] = message[t]]_vars

\* the flush of snapshot m1..mN has stopped at its k-th message: m1..m(k-1)
\* were delivered and the queue begins with mk..mN in their original order
FlushStoppedAt(t, k) ==
    LET N == Len(flushSnap[t]) IN
    /\ FlushedSoFar(t) = SubSeq(flushSnap[t], 1, k - 1)
    /\ Len(message_queue) >= N - k + 1
    /\ SubSeq(message_queue, 1, N - k + 1) = SubSeq(flushSnap[t], k, N)

\* C3 -- partial-flush recovery: a flush that has taken a message out of the
\* queue to transmit it comes to a stop at some k with messages 1..k-1
\* delivered and the queue holding k..N in original order, the message whose
\* transmission did not succeed at the front.
C3_PartialFlushRecovery ==
    \A t \in Threads :
        (pc[t] = "smd_acquire" /\ caller[t] = "flush")
            ~> (~Flushing(t) /\ \E k \in 1..(Len(flushSnap[t]) + 1) : FlushStoppedAt(t, k))

\* C4 -- queue bound: the outbound queue never holds more than
\* MAX_QUEUE_SIZE messages, and the put of a send_message call that finds the
\* queue at capacity leaves the queue exactly as it was (the new message is
\* dropped, nothing queued is evicted).
C4_QueueBound ==
    /\ [](Len(message_queue) <= MAX_QUEUE_SIZE)
    /\ [][\A t \in Threads :
            (pc[t] = "sm_put" /\ pc'[t] = "idle" /\ Len(message_queue) >= MAX_QUEUE_SIZE)
                => (message_queue' = message_queue /\ outcome'[t] = "dropped")]_vars

\* a send_message call was rejected with the queue at capacity
C4_Witness ==
    \E t \in Threads :
        /\ outcome[t] = "dropped"
        /\ pc[t] = "idle"
        /\ Len(message_queue) = MAX_QUEUE_SIZE

\* C5 -- the value send_message returns for a dropped message differs from the
\* value it returns for an enqueued message.
C5_DroppedDistinguishable ==
    \A t, u \in Threads :
        (pc[t] = "idle" /\ pc[u] = "idle" /\ outcome[t] = "dropped" /\ outcome[u] = "enqueued")
            => ret[t] # ret[u]

\* C6 -- a connect() call that has established the connection attempts the
\* flush and then returns True, whatever the queue holds.
C6_ConnectReturns ==
    \A t \in Threads : Flushing(t) ~> (pc[t] = "idle" /\ ret[t] = "True")

\* a thread is inside send_message (or the _send_message_direct it calls)
InSendMessage(t) ==
    \/ pc[t] = "sm_put"
    \/ (pc[t] \in {"smd_acquire", "smd_body"} /\ caller[t] = "send_message")

\* C7 -- every send_message call eventually returns, under any interleaving
\* with connect(), disconnect() and other send_message calls.
C7_SendMessageReturns ==
    \A t \in Threads : InSendMessage(t) ~> (pc[t] = "idle")

(***************************************************************************)
(* Claims about the IPCServer's frame loop and the IPCMessage codec        *)
(***************************************************************************)

\* the frame carries a credential field whose value is not the shared secret
WrongCredential(body) ==
    /\ body.kind = "object"
    /\ "auth_token" \in DOMAIN body.obj
    /\ loads(body.obj.auth_token) # IPC_AUTH_TOKEN

\* C8 -- auth rejection: a frame whose credential is any value other than
\* the shared secret (the empty string and null included) invokes no
\* handler, and the connection it came on stays open.
C8_AuthRejection ==
    [][\A c \in Conns, body \in FrameBodies, raises \in BOOLEAN :
          (handle_client(c, body, raises) /\ WrongCredential(body))
              => /\ handled' = handled
                 /\ sock'[c] = sock[c]
                 /\ hpc'[c] = "check"
                 /\ c \in Range(connected_clients')]_vars

\* the frame is a JSON object without the kind field or without the
\* credential field
MissingRequiredField(body) ==
    /\ body.kind = "object"
    /\ ("msg_type" \notin DOMAIN body.obj \/ "auth_token" \notin DOMAIN body.obj)

\* C9 -- a frame body that lacks the kind field or the credential field fails
\* to decode, so the frame is answered with an error and never dispatched.
C9_MissingFieldIsMalformed ==
    [][\A c \in Conns, body \in FrameBodies, raises \in BOOLEAN :
          (handle_client(c, body, raises) /\ MissingRequiredField(body))
              => /\ from_json(body, DecodeTime).err # "none"
                 /\ process_frame(body) = "error"
                 /\ handled' = handled]_vars

\* C10 -- round trip: for every valid envelope e, from_json(e.to_json())
\* decodes without error to an envelope equal to e in msg_type, data,
\* auth_token and timestamp.
C10_RoundTrip ==
    (cphase = "decoded" /\ ValidEnvelope(env))
        => /\ decoded.err = "none"
           /\ decoded.msg.msg_type = env.msg_type
           /\ decoded.msg.data = env.data
           /\ decoded.msg.auth_token = env.auth_token
           /\ decoded.msg.timestamp = env.timestamp

\* a valid envelope with a non-empty payload and a credential given by the
\* caller has been encoded and decoded
C10_Witness ==
    /\ cphase = "decoded"
    /\ ValidEnvelope(env)
    /\ DOMAIN env.data # {}
    /\ env.auth_token # IPC_AUTH_TOKEN
    /\ decoded.err = "none"

(***************************************************************************)
(* Claims about the IPCServer's start() and stop()                         *)
(***************************************************************************)

\* the fields of the server and the state of its threads and sockets
ServerState == <<running, server_socket, connected_clients, loop_pc, sock, hpc,
                 stop_pc, stop_i, handled, nFrames>>

\* C18 -- start() is idempotent: a call of start() while the server is
\* already running starts no second accept loop and changes no server state.
C18_StartIdempotent ==
    [][(running /\ start) => (loop_pc' = loop_pc /\ ServerState' = ServerState)]_vars

\* the state a call of start() on a running server starts from and, being a
\* no-op, ends in: running, with the one accept loop of the first start()
C18_Witness ==
    /\ running
    /\ Cardinality({l \in Loops : loop_pc[l] \in {"check", "accept"}}) = 1
    /\ \E l \in Loops : loop_pc[l] = "unborn"

\* this step is the return of stop()
StopReturns == stop_pc = "clients" /\ stop_pc' = "idle"

\* C19 -- when stop() returns, every connection that was in the active set
\* when stop() was called is closed, whatever the handler threads did to the
\* active set in between.
C19_StopClosesAll ==
    [][StopReturns => \A c \in stopSnap : sock[c] = "closed"]_vars

\* C20 -- after stop() has returned, no connection handler reads a frame
\* and no handler is invoked.
C20_NoFrameAfterStop ==
    [][stopped => (nFrames' = nFrames /\ handled' = handled)]_vars

(***************************************************************************)
(* Claims about the sync engine                                             *)
(***************************************************************************)

SendOutcomes == {"module", "None"} \X BOOLEAN

\* this step is thread p handing its batch to _send_to_server with outcome o
Submits(p, o) == sync_submit(p, o[1], o[2])
Accepted(o) == send_to_server(ENABLE_SERVER_SYNC, o[1], o[2]).success

\* the class of the batch thread p has submitted last
SubmittedClass(p) ==
    IF ppc[p] = "end" THEN ClassOrder[Len(ClassOrder)] ELSE ClassOrder[pcls[p] - 1]

\* thread p has just submitted a batch and not selected since
HasSubmitted(p) ==
    /\ batch[p] # <<>>
    /\ ppc[p] = "end" \/ (ppc[p] = "select" /\ pcls[p] > 1)

\* C11 -- sync atomicity: when a submitted batch is accepted, exactly the
\* selected ids become synced; a record of the same class inserted after the
\* selection stays unsynced, and no other table changes.
C11_SyncAtomicity ==
    [][\A p \in Passes, o \in SendOutcomes :
          (Submits(p, o) /\ Accepted(o))
              => LET cls == ClassOrder[pcls[p]] IN
                 /\ Len(table'[cls]) = Len(table[cls])
                 /\ \A i \in 1..Len(table[cls]) :
                       /\ table'[cls][i].timestamp = table[cls][i].timestamp
                       /\ table'[cls][i].synced = 1
                             <=> (i \in Range(batch[p]) \/ table[cls][i].synced = 1)
                 /\ \A other \in Classes \ {cls} : table'[other] = table[other]]_vars

\* an accepted batch smaller than the limit, all of it synced, next to an
\* unsynced record of the same class: the record came after the selection
C11_Witness ==
    \E p \in Passes :
        /\ HasSubmitted(p)
        /\ Len(batch[p]) < SELECT_LIMIT
        /\ sync_stats[p][SubmittedClass(p)] = Len(batch[p])
        /\ \A i \in Range(batch[p]) : table[SubmittedClass(p)][i].synced = 1
        /\ \E i \in 1..Len(table[SubmittedClass(p)]) :
              i \notin Range(batch[p]) /\ table[SubmittedClass(p)][i].synced = 0

\* C12 -- a record is synced only if the remote endpoint has confirmed a
\* batch that contains its id.
C12_SyncedOnlyAfterConfirmation ==
    \A cls \in Classes : \A i \in 1..Len(table[cls]) :
        table[cls][i].synced = 1 => <<cls, i>> \in confirmed

\* C13 -- non-regression: a synced record stays in its table and stays
\* synced, and no SELECT of a sync pass returns it again.
C13_NonRegression ==
    [][\A cls \in Classes : \A i \in 1..Len(table[cls]) :
          table[cls][i].synced = 1
              => /\ i <= Len(table'[cls])
                 /\ table'[cls][i].synced = 1
                 /\ \A p \in Passes :
                       (sync_select(p) /\ ClassOrder[pcls[p]] = cls)
                           => i \notin Range(batch'[p])]_vars

\* a batch below the limit that leaves out a synced record older (by id) than
\* one of its members and no later in timestamp: the record was synced
\* already when the batch was selected
C13_Witness ==
    \E p \in Passes :
        /\ ppc[p] = "send"
        /\ Len(batch[p]) < SELECT_LIMIT
        /\ LET tbl == table[ClassOrder[pcls[p]]] IN
           \E i \in 1..Len(tbl) : \E j \in Range(batch[p]) :
              /\ i \notin Range(batch[p])
              /\ tbl[i].synced = 1
              /\ i < j
              /\ tbl[i].timestamp <= tbl[j].timestamp
              /\ tbl[j].synced = 0

C16_BatchOldestFirst ==
    [][\A p \in Passes :
          sync_select(p)
              => LET tbl == table[ClassOrder[pcls[p]]]
                     b == batch'[p]
                 IN /\ Len(b) <= SYNC_BATCH_SIZE
                    /\ \A j \in Range(b) : tbl[j].synced = 0
                    /\ \A i \in 1..Len(tbl) :
                          (tbl[i].synced = 0 /\ i \notin Range(b))
                              => \A j \in Range(b) : tbl[j].timestamp <= tbl[i].timestamp]_vars

\* a full batch whose selection left out an unsynced record with a smaller
\* id but a later timestamp
C16_Witness ==
    \E p \in Passes :
        /\ ppc[p] = "send"
        /\ Len(batch[p]) = SYNC_BATCH_SIZE
        /\ LET tbl == table[ClassOrder[pcls[p]]] IN
           \E i \in 1..Len(tbl) :
              /\ i \notin Range(batch[p])
              /\ tbl[i].synced = 0
              /\ \A j \in Range(batch[p]) : i < j /\ tbl[j].timestamp < tbl[i].timestamp

\* C17 -- at most one execution of sync_data_to_server is in progress.
C17_PassesNeverOverlap ==
    Cardinality({p \in Passes : ppc[p] # "idle"}) <= 1

\* C21 -- once stop() has cleared self.running, every accept loop that is
\* alive ends, unless start() sets self.running again first.
C21_AcceptLoopEnds ==
    \A l \in Loops :
        (~running /\ loop_pc[l] \in {"init", "check", "accept"})
            ~> (loop_pc[l] = "ended" \/ running)

\* an accept loop that had accepted a connection has ended after stop()
\* returned, and no accept loop is left alive
C21_Witness ==
    /\ stopped
    /\ \E c \in Conns : sock[c] # "none"
    /\ \E l \in Loops : loop_pc[l] = "ended"
    /\ \A l \in Loops : loop_pc[l] \in {"unborn", "ended"}

(***************************************************************************)
(* Claims about the frames a running IPCServer reads                       *)
(***************************************************************************)

\* the frame decodes, carries the shared secret and names a kind that has a
\* registered handler
CorrectlyAuthenticated(body) ==
    /\ body.kind = "object"
    /\ {"msg_type", "data", "auth_token"} \subseteq DOMAIN body.obj
    /\ loads(body.obj.auth_token) = IPC_AUTH_TOKEN
    /\ loads(body.obj.msg_type) \in message_handlers

\* C22 -- an exception raised by a registered handler is caught for that one
\* message: the connection stays open and in the active set, and its thread
\* goes back to the loop test to read the next frame.
C22_HandlerExceptionCaught ==
    [][\A c \in Conns, body \in FrameBodies :
          (handle_client(c, body, TRUE) /\ CorrectlyAuthenticated(body))
              => /\ hpc'[c] = "check"
                 /\ sock'[c] = "open"
                 /\ c \in Range(connected_clients')
                 /\ Len(handled') = Len(handled) + 1]_vars

\* on the only connection ever accepted, a handler raised for the first
\* frame and the second frame was dispatched all the same
C22_Witness ==
    /\ sock[1] = "open" /\ sock[2] = "none"
    /\ Len(handled) = 2
    /\ handled[1].raised
    /\ ~handled[2].raised

\* a frame with a zero length prefix, a body that is no JSON document, or a
\* JSON object without the kind field or the payload field
MalformedFrame(body) ==
    \/ body.kind \in {"empty", "invalid"}
    \/ /\ body.kind = "object"
       /\ ("msg_type" \notin DOMAIN body.obj \/ "data" \notin DOMAIN body.obj)

\* C23 -- a malformed frame is dropped without a handler call and the
\* connection continues: its thread goes back to the loop test with the
\* socket open.
C23_MalformedFrameDropped ==
    [][\A c \in Conns, body \in FrameBodies :
          (handle_client(c, body, FALSE) /\ MalformedFrame(body))
              => /\ handled' = handled
                 /\ sock'[c] = "open"
                 /\ hpc'[c] = "check"]_vars

\* C24 -- a correctly authenticated frame of a kind with a registered handler
\* causes exactly one call of that handler, with the frame's payload, and
\* the server writes nothing to any connection.
C24_OneInvocationNoResponse ==
    [][\A c \in Conns, body \in FrameBodies, raises \in BOOLEAN :
          (handle_client(c, body, raises) /\ CorrectlyAuthenticated(body))
              => /\ handled' = Append(handled,
                                      [msg_type |-> loads(body.obj.msg_type),
                                       data |-> [k \in DOMAIN body.obj.data |->
                                                    loads(body.obj.data[k])],
                                       raised |-> raises])
                 /\ written' = written]_vars

\* the ping frame with data {"agent_id": "abc"} was read and its handler was
\* called once with that payload; nothing was written back
C24_Witness ==
    /\ nFrames = 1
    /\ handled = <<[msg_type |-> PyStr("ping"),
                    data |-> [agent_id |-> PyStr("abc")],
                    raised |-> FALSE]>>
    /\ \A c \in Conns : written[c] = 0

(***************************************************************************)
(* Claims about how a sync pass is triggered and goes through the classes  *)
(***************************************************************************)

\* C28 -- with sync turned off by configuration no pass does anything,
\* however it was triggered: no thread holds a selected batch and no failure
\* is counted.
C28_DisabledSyncDoesNothing ==
    ~ENABLE_SERVER_SYNC
        => \A p \in Passes : batch[p] = <<>> /\ sync_stats[p].failed = 0

\* C29 -- a pass takes the classes in the order clipboard_events, app_usage,
\* screenshots: it starts at the first, moves on by one class at a time and
\* ends only after the last; a batch the remote did not accept does not end
\* the pass, the next class is selected.
C29_ClassesInOrder ==
    [][\A p \in Passes :
          /\ (ppc[p] = "idle" /\ ppc'[p] # "idle")
                => (ppc'[p] = "select" /\ ClassOrder[pcls'[p]] = "clipboard_events")
          /\ (ppc[p] \in {"select", "send"} /\ pcls'[p] # pcls[p])
                => (ppc'[p] = "select" /\ pcls'[p] = pcls[p] + 1)
          /\ (ppc[p] \in {"select", "send"} /\ ppc'[p] = "end")
                => ClassOrder[pcls[p]] = "screenshots"
          /\ (ppc[p] = "select" /\ ppc'[p] = "send")
                => (pcls'[p] = pcls[p] /\ batch'[p] # <<>>)
          /\ \A requests \in {"module", "None"}, raises \in BOOLEAN :
                (/\ sync_submit(p, requests, raises)
                 /\ ~send_to_server(ENABLE_SERVER_SYNC, requests, raises).success
                 /\ pcls[p] < Len(ClassOrder))
                    => (ppc'[p] = "select" /\ pcls'[p] = pcls[p] + 1)]_vars

\* within one pass the clipboard_events batch failed and the app_usage batch
\* that followed it was accepted
C29_Witness ==
    \E p \in Passes :
        /\ sync_stats[p].failed > 0
        /\ sync_stats[p].clipboard_events = 0
        /\ sync_stats[p].app_usage > 0
        /\ \E i \in 1..Len(table["clipboard_events"]) :
              table["clipboard_events"][i].synced = 0

\* the state of the passes other than p
OtherPasses(p) == [q \in Passes \ {p} |-> <<ppc[q], pcls[q], batch[q], sync_stats[q]>>]

\* C30 -- _handle_command returns normally for every payload; a command other
\* than sync_now changes no state; sync_now only starts a thread at the
\* beginning of a pass, which has selected and submitted nothing when the
\* command returns.
C30_CommandDispatch ==
    [][\A cmd \in Commands, fails \in BOOLEAN :
          handle_command(cmd, fails)
              => /\ ~command_effect(cmd, fails).raised
                 /\ (cmd # "sync_now" \/ fails) => UNCHANGED syncVars
                 /\ (cmd = "sync_now" /\ ~fails)
                       => \E p \in Passes :
                             /\ ppc[p] = "idle"
                             /\ ppc'[p] = "select"
                             /\ ClassOrder[pcls'[p]] = "clipboard_events"
                             /\ batch'[p] = <<>>
                             /\ sync_stats'[p] = NoStats
                             /\ OtherPasses(p)' = OtherPasses(p)
                             /\ UNCHANGED <<ENABLE_SERVER_SYNC, table, confirmed>>]_vars

\* a sync_now command has returned: its thread stands before the first
\* SELECT of the pass while unsynced records wait and the periodic thread is
\* idle
C30_Witness ==
    /\ ppc[1] = "idle"
    /\ \E p \in Passes \ {1} : ppc[p] = "select" /\ pcls[p] = 1 /\ batch[p] = <<>>
    /\ \E i \in 1..Len(table["clipboard_events"]) :
          table["clipboard_events"][i].synced = 0

(***************************************************************************)
(* Claims about the client's sockets and disconnect()                      *)
(***************************************************************************)

\* C26 -- the client never holds duplicate connections: whatever the
\* interleaving of connect() calls, sends and send failures, at most one
\* client socket is open, and it is the one self.socket refers to.
C26_NoDuplicateConnections ==
    /\ open_sockets <= 1
    /\ (open_sockets = 1) <=> (socket # "None")
    /\ connected => open_sockets = 1

\* a send failed on the first connection, and a later connect() has
\* established a new one
C26_Witness ==
    /\ \E u \in Threads : outcome[u] = "failed"
    /\ \E t \in Threads : ret[t] = "True" /\ outcome[t] = "none" /\ pc[t] = "idle"
    /\ connected
    /\ open_sockets = 1

\* C27 -- disconnect() closes the connection and leaves the queue as it is;
\* from then on the client stays disconnected until a connect() succeeds,
\* and a send_message call made while it is disconnected transmits nothing
\* and appends its message to the queue when that is below capacity.
C27_DisconnectThenEnqueue ==
    [][\A t \in Threads :
          /\ disconnect_body(t)
                => /\ message_queue' = message_queue
                   /\ ~connected'
                   /\ socket' = "None"
                   /\ open_sockets' = 0
          /\ (~connected /\ connected') => \E u \in Threads : connect_body(u, TRUE)
          /\ (send_message(t) /\ ~connected)
                => (pc'[t] = "sm_put" /\ delivered' = delivered)
          /\ send_message_put(t)
                => /\ delivered' = delivered
                   /\ message_queue' = IF Len(message_queue) < MAX_QUEUE_SIZE
                                        THEN Append(message_queue, message[t])
                                        ELSE message_queue]_vars

\* message 1 was sent on a connection, disconnect() closed it, and message 2,
\* sent afterwards, is in the queue and not on the wire
C27_Witness ==
    /\ ~connected
    /\ socket = "None"
    /\ delivered = <<1>>
    /\ message_queue = <<2>>
    /\ \A t \in Threads : pc[t] = "idle"

(***************************************************************************)
(* Claims about the user agent's reconnection                              *)
(***************************************************************************)

\* C25 -- while the agent runs and its client is disconnected (the
\* connection attempts of start() are exhausted, or a send failed), the
\* client becomes connected again, with or without send_message calls.
C25_BackgroundReconnect ==
    (pc[MainThread] = "tray" /\ ~connected)
        ~> (connected \/ pc[MainThread] # "tray")

(***************************************************************************)
(* Claims about the number of accept loops                                 *)
(***************************************************************************)

\* the _server_loop threads that are inside `while self.running`
ActiveLoops == {l \in Loops : loop_pc[l] \in {"check", "accept"}}

\* C40 -- at most one accept loop is active: while the server is running and
\* no stop() is under way, no two _server_loop threads are inside the accept
\* loop at the same time, whatever calls of start() and stop() came before.
C40_OneAcceptLoop ==
    (running /\ stop_pc = "idle") => Cardinality(ActiveLoops) <= 1

\* C33 -- a failed bind is fatal: once the started _server_loop thread is past
\* its bind, a server that reports itself running has a listening socket.
C33_BindFailureIsFatal ==
    (running /\ \A l \in Loops : loop_pc[l] # "init")
        => server_socket = "listening"

(***************************************************************************)
(* Claims about sync and the configuration switch                          *)
(***************************************************************************)

\* C31 -- a pass of the periodic loop, which starts only while sync is
\* enabled, is not interrupted by the configuration: whenever it hands a
\* batch to the remote and no error occurs, the batch is marked synced, also
\* if sync has been disabled since the pass began.
C31_DisableMidPassCompletes ==
    [][\A requests \in {"module", "None"} :
          sync_submit(1, requests, FALSE)
              => \A i \in Range(batch[1]) :
                    table'[ClassOrder[pcls[1]]][i].synced = 1]_vars

(***************************************************************************)
(* Claims about the store: retention cleanup, ack state, the lock          *)
(***************************************************************************)

\* the cutoff cleanup_old_data applies to a record class
ApplicableCutoff(cls, cutoff_date, screenshot_cutoff) ==
    IF cls = "screenshots" THEN screenshot_cutoff ELSE cutoff_date

\* C34 -- retention cleanup deletes only records that are synced or older
\* than the cutoff of their class: an unsynced record that is not older than
\* the cutoff survives every cleanup_old_data.
C34_CleanupKeepsUnsynced ==
    [][\A cutoff_date, screenshot_cutoff \in Cutoffs :
          cleanup_old_data_commit(cutoff_date, screenshot_cutoff)
              => \A cls \in Classes : \A i \in 1..Len(table[cls]) :
                    (~table[cls][i].deleted /\ table'[cls][i].deleted)
                        => \/ table[cls][i].synced = 1
                           \/ table[cls][i].timestamp
                                 < ApplicableCutoff(cls, cutoff_date, screenshot_cutoff)]_vars

\* a cleanup has deleted a synced record of a class and left an unsynced
\* record of the same class, of the same age or older, in the table
C34_Witness ==
    \E cls \in Classes \ {"screenshots"} : \E i, j \in 1..Len(table[cls]) :
        /\ table[cls][i].deleted
        /\ ~table[cls][j].deleted
        /\ table[cls][j].synced = 0
        /\ table[cls][j].timestamp <= table[cls][i].timestamp

\* this step is a store access of a sync pass: its SELECT or its UPDATE
SyncStoreStep(p) ==
    \/ sync_select(p)
    \/ \E requests \in {"module", "None"}, raises \in BOOLEAN :
          sync_submit(p, requests, raises)

\* C35 -- a record is inserted unsynced and an insert changes no existing
\* record; only a sync pass's UPDATE changes an ack state; a sync pass never
\* deletes a record.
C35_AckStateLifecycle ==
    [][/\ \A cls \in Classes :
            Len(table'[cls]) > Len(table[cls])
                => /\ table'[cls][Len(table'[cls])].synced = 0
                   /\ ~table'[cls][Len(table'[cls])].deleted
                   /\ \A i \in 1..Len(table[cls]) : table'[cls][i] = table[cls][i]
       /\ (\E cls \in Classes : \E i \in 1..Len(table[cls]) :
               table'[cls][i].synced # table[cls][i].synced)
            => \E p \in Passes, requests \in {"module", "None"}, raises \in BOOLEAN :
                  sync_submit(p, requests, raises)
       /\ \A p \in Passes :
            SyncStoreStep(p)
                => \A cls \in Classes :
                      /\ Len(table'[cls]) = Len(table[cls])
                      /\ \A i \in 1..Len(table[cls]) :
                            table'[cls][i].deleted = table[cls][i].deleted]_vars

\* a record was inserted after an older record of its class had been synced
\* by a pass: the new one is unsynced, the old one still synced and present
C35_Witness ==
    \E cls \in Classes : \E i, j \in 1..Len(table[cls]) :
        /\ i < j
        /\ table[cls][i].synced = 1 /\ ~table[cls][i].deleted
        /\ table[cls][j].synced = 0 /\ ~table[cls][j].deleted

\* C32 -- store accesses are serialized by DatabaseManager.lock: the sync
\* engine's SELECT and UPDATE do not run while another operation holds the
\* lock.
C32_StoreSerialized ==
    [][\A p \in Passes : SyncStoreStep(p) => db_lock = "none"]_vars

(***************************************************************************)
(* Claims about interleavings of passes, sends and flushes                 *)
(***************************************************************************)

\* C38 -- no record is uploaded twice: a batch the remote endpoint accepts
\* holds no record that an earlier accepted batch already held, that is, no
\* record the store already shows as synced.
C38_NoDoubleUpload ==
    [][\A p \in Passes, o \in SendOutcomes :
          (Submits(p, o) /\ Accepted(o))
              => \A i \in Range(batch[p]) : table[ClassOrder[pcls[p]]][i].synced = 0]_vars

\* a flush has taken message m out of the queue and not yet disposed of it
TakenOut(m) == \E t \in Threads : caller[t] = "flush" /\ message[t] = m

\* C36 -- no queued message is lost: a message a flush has taken out of the
\* outbound queue is transmitted to the server or put back into the queue.
C36_NoQueuedMessageLost ==
    \A m \in 1..MaxMsgs :
        TakenOut(m) ~> (m \in Range(message_queue) \/ m \in Range(delivered))

\* C37 -- send order across the queued and the direct path: a send_message
\* call does not transmit its message directly while a message of an earlier
\* send_message call is in the outbound queue.
C37_SendOrderPreserved ==
    [][\A t \in Threads, ok \in BOOLEAN :
          (/\ send_message_direct_body(t, ok)
           /\ caller[t] = "send_message"
           /\ delivered' # delivered)
              => \A i \in 1..Len(message_queue) : message_queue[i] > message[t]]_vars

\* C39 -- eventual sync: with sync enabled, the sync loop running passes and
\* every submitted batch accepted, a record that is in the table of a record
\* class is eventually marked synced, unless it is deleted first, while
\* records keep being inserted.
C39_EventualSync ==
    \A cls \in Classes, i \in 1..MaxRecords :
        (i <= Len(table[cls]))
            ~> (i <= Len(table[cls])
                   /\ (table[cls][i].synced = 1 \/ table[cls][i].deleted))

\* more records of one class than one SELECT returns are all synced and
\* present: the later ones were picked up by a later pass
C39_Witness ==
    \E cls \in Classes :
        /\ Len(table[cls]) > SELECT_LIMIT
        /\ \A i \in 1..Len(table[cls]) :
              table[cls][i].synced = 1 /\ ~table[cls][i].deleted

====
